---- MODULE Spec2Model ----
(***************************************************************************)
(* The WebGenAI browser client: the Input form, the root coordinator App,  *)
(* the Preview and Download components and the API client.                 *)
(*                                                                         *)
(* The repository holds two builds of the client:                          *)
(*   "polling"    App polls checkStatus on an interval and hands           *)
(*                previewUrl / zipUrl / loading down to a render-only      *)
(*                Preview and a DownloadButton({zipUrl, disabled});        *)
(*   "delegating" App only holds projectId; Preview({projectId}) owns the  *)
(*                effect that calls stopPreview and checkStatus, and       *)
(*                DownloadButton({projectId}) navigates to the download    *)
(*                endpoint of the identifier.                              *)
(* InputForm is the same in both.  The variable `variant` says which build *)
(* is running; it is chosen in Init and never changes.                     *)
(*                                                                         *)
(* Steps are the callbacks the event loop runs: a DOM event handler, an    *)
(* interval callback, the continuation of an awaited request, a .then      *)
(* callback, and React's flush of a component's effects (the cleanup of    *)
(* the previous effect followed by the new effect, run back to back after  *)
(* the render that changed the dependency).                                *)
(***************************************************************************)
EXTENDS Integers, Sequences, FiniteSets, TLC

\* Bounds of the model.
MaxSubmits == 2      \* submissions that succeed (identifiers reported upward)
MaxQueries == 5      \* status queries issued by interval ticks

Null == "null"               \* JavaScript null / undefined
NoDep == "nodep"             \* no effect has run yet (no previous dependency)
Ids == {"A", "B"}            \* project identifiers the server hands out
Space == " "
\* the drafts typed: empty, whitespace only, and text between whitespace
Descriptions == {<<>>, <<Space, Space>>, <<Space, "x", Space>>}
Detail == "server detail"    \* error.response.data.detail, when present
Details == {Null, Detail}
Variants == {"polling", "delegating"}

VARIABLES
  variant,
  \* InputForm
  description, fLoading, fError,
  genPending,      \* generateProject calls awaiting their response
  reported,        \* onGenerate calls made so far
  \* App
  projectId, appError,
  effectDep,       \* the projectId the [projectId] effect last ran with
  \* App, polling build
  previewUrl, zipUrl, loadingPreview,
  timers,          \* active setInterval handles (by effect run)
  sess,            \* one record per run of the [projectId] effect body
  \* Preview, delegating build
  pvPreviewUrl, pvError, pvLoading,
  stopPending,     \* stopPreview calls awaiting their response: <<run, chained>>
  fetchQueue,      \* effect runs whose cleanupPreviousPreview() settled, .then due
  calls,           \* the requests Preview issued, in order
  warnings,        \* console.warn lines written
  \* window
  location

formVars == <<description, fLoading, fError, genPending, reported>>
appVars == <<projectId, appError, effectDep>>
pollVars == <<previewUrl, zipUrl, loadingPreview, timers, sess>>
pvVars == <<pvPreviewUrl, pvError, pvLoading, stopPending, fetchQueue,
            calls, warnings>>
vars == <<variant, formVars, appVars, pollVars, pvVars, location>>

----------------------------------------------------------------------------
\* API client

\* new Error(error.response?.data?.detail || fallback).message
ErrMessage(detail, fallback) == IF detail = Null THEN fallback ELSE detail

PreviewRef(id) == "/preview/" \o id     \* preview_url of a status answer
ZipRef(id) == "/zip/" \o id         \* zip_url of a status answer
DownloadEndpoint(id) == "/api/download/" \o id   \* `${API_URL}/api/download/${projectId}`

----------------------------------------------------------------------------
\* InputForm

IsSpace(c) == c = Space

RECURSIVE TrimStart(_)
TrimStart(s) == IF s # <<>> /\ IsSpace(Head(s)) THEN TrimStart(Tail(s)) ELSE s

RECURSIVE TrimEnd(_)
TrimEnd(s) ==
  IF s # <<>> /\ IsSpace(s[Len(s)]) THEN TrimEnd(SubSeq(s, 1, Len(s) - 1)) ELSE s

\* String.prototype.trim
Trim(s) == TrimEnd(TrimStart(s))

\* faulty IsBlank: `!description`, which only the empty string satisfies
EmptyOnly(s) == s = <<>>

\* `!description.trim()`
IsBlank(s) == Trim(s) = <<>>

\* faulty SubmitDisabled: a submit button without disabled={loading}
SubmitNeverDisabled == FALSE

\* <button onClick={handleGenerate} disabled={loading}>
SubmitDisabled == fLoading

\* faulty LoadingAfterSubmit: handleGenerate without its finally block
LoadingLeftSet == fLoading

\* finally { setLoading(false) }
LoadingAfterSubmit == FALSE

\* <textarea onChange={(e) => setDescription(e.target.value)}>
SetDescription(d) ==
  /\ d # description
  /\ description' = d
  /\ UNCHANGED <<variant, fLoading, fError, genPending, reported,
                 appVars, pollVars, pvVars, location>>

\* handleGenerate of InputForm up to its await: a click on the submit button
ClickGenerate ==
  /\ ~SubmitDisabled
  /\ reported + genPending < MaxSubmits
  /\ IF IsBlank(description)
       THEN UNCHANGED <<fLoading, fError, genPending>>
       ELSE /\ fLoading' = TRUE
            /\ fError' = Null
            /\ genPending' = genPending + 1
  /\ UNCHANGED <<variant, description, reported, appVars, pollVars, pvVars,
                 location>>

\* faulty AppHandleGenerate: handleGenerate without setError(null)
HandleGenerateKeepsError(id) ==
  /\ projectId' = id
  /\ UNCHANGED appError
  /\ IF variant = "polling"
       THEN loadingPreview' = TRUE
       ELSE UNCHANGED loadingPreview

\* App.handleGenerate, either build
AppHandleGenerate(id) ==
  /\ projectId' = id
  /\ appError' = Null
  /\ IF variant = "polling"
       THEN loadingPreview' = TRUE
       ELSE UNCHANGED loadingPreview

\* React runs the effects a render left pending before it takes the next update
EffectPending ==
  IF variant = "polling"
    THEN effectDep # projectId
    ELSE projectId # Null /\ effectDep # projectId

\* handleGenerate of InputForm after its await: generateProject resolved
GenerateResolves(id) ==
  /\ genPending > 0
  /\ ~EffectPending
  /\ genPending' = genPending - 1
  /\ AppHandleGenerate(id)
  /\ reported' = reported + 1
  /\ fLoading' = LoadingAfterSubmit
  /\ UNCHANGED <<variant, description, fError, effectDep,
                 previewUrl, zipUrl, timers, sess, pvVars, location>>

\* handleGenerate of InputForm after its await: generateProject threw
GenerateRejects(detail) ==
  /\ genPending > 0
  /\ genPending' = genPending - 1
  /\ fError' = ErrMessage(detail, "Generation failed")
  /\ fLoading' = LoadingAfterSubmit
  /\ UNCHANGED <<variant, description, reported, appVars, pollVars,
                 pvVars, location>>

----------------------------------------------------------------------------
\* App, polling build

RECURSIVE TotalIssued(_)
TotalIssued(ss) == IF ss = <<>> THEN 0 ELSE Head(ss).issued + TotalIssued(Tail(ss))

NewSession(id) ==
  [id |-> id, issued |-> 0, pending |-> 0, notReady |-> 0,
   overlap |-> FALSE, stopped |-> "no"]

\* clearInterval(pollStatus)
ClearInterval(ts, s) == ts \ {s}

\* faulty EffectCleanup: an effect that returns no cleanup
EffectCleanupMissing(ts, s) == ts

\* return () => clearInterval(pollStatus)
EffectCleanup(ts, s) == ClearInterval(ts, s)

\* the [projectId] effect of App: cleanup of the previous run, then the body
AppEffect ==
  /\ variant = "polling"
  /\ effectDep # projectId
  /\ LET cleaned == IF effectDep \in Ids
                      THEN EffectCleanup(timers, Len(sess))
                      ELSE timers
     IN IF projectId = Null
          THEN /\ timers' = cleaned
               /\ UNCHANGED sess
          ELSE /\ sess' = Append(sess, NewSession(projectId))
               /\ timers' = cleaned \cup {Len(sess) + 1}
  /\ effectDep' = projectId
  /\ UNCHANGED <<variant, formVars, projectId, appError, previewUrl, zipUrl,
                 loadingPreview, pvVars, location>>

\* the interval callback up to its await: checkStatus(projectId) is called
Tick(s) ==
  /\ variant = "polling"
  /\ s \in timers
  /\ TotalIssued(sess) < MaxQueries
  /\ sess' = [sess EXCEPT ![s].issued = @ + 1,
                          ![s].pending = @ + 1,
                          ![s].overlap = @ \/ sess[s].pending > 0]
  /\ UNCHANGED <<variant, formVars, appVars, previewUrl, zipUrl,
                 loadingPreview, timers, pvVars, location>>

\* the interval callback after its await: status is not 'ready'
PollNotReady(s) ==
  /\ variant = "polling"
  /\ s \in 1..Len(sess)
  /\ sess[s].pending > 0
  /\ sess' = [sess EXCEPT ![s].pending = @ - 1,
                          ![s].notReady = IF sess[s].stopped = "no" THEN @ + 1 ELSE @]
  /\ UNCHANGED <<variant, formVars, appVars, previewUrl, zipUrl,
                 loadingPreview, timers, pvVars, location>>

\* faulty StopOnReady: the ready branch without its clearInterval
KeepPollingOnReady(ts, s) == ts

\* clearInterval(pollStatus) of the ready branch
StopOnReady(ts, s) == ClearInterval(ts, s)

\* faulty PollReady: the answer is dropped when the identifier it was asked for
\* is no longer the current one
PollReadyChecked(s) ==
  /\ variant = "polling"
  /\ s \in 1..Len(sess)
  /\ sess[s].pending > 0
  /\ IF sess[s].id = projectId
       THEN /\ previewUrl' = PreviewRef(sess[s].id)
            /\ zipUrl' = ZipRef(sess[s].id)
            /\ loadingPreview' = FALSE
            /\ timers' = StopOnReady(timers, s)
       ELSE UNCHANGED <<previewUrl, zipUrl, loadingPreview, timers>>
  /\ sess' = [sess EXCEPT ![s].pending = @ - 1,
                          ![s].stopped = IF @ = "no" THEN "ready" ELSE @]
  /\ UNCHANGED <<variant, formVars, appVars, pvVars, location>>

\* the interval callback after its await: status === 'ready'
PollReady(s) ==
  /\ variant = "polling"
  /\ s \in 1..Len(sess)
  /\ sess[s].pending > 0
  /\ previewUrl' = PreviewRef(sess[s].id)
  /\ zipUrl' = ZipRef(sess[s].id)
  /\ loadingPreview' = FALSE
  /\ timers' = StopOnReady(timers, s)
  /\ sess' = [sess EXCEPT ![s].pending = @ - 1,
                          ![s].stopped = IF @ = "no" THEN "ready" ELSE @]
  /\ UNCHANGED <<variant, formVars, appVars, pvVars, location>>

\* faulty StopOnError: the catch branch without its clearInterval
KeepPollingOnError(ts, s) == ts

\* clearInterval(pollStatus) of the catch branch
StopOnError(ts, s) == ClearInterval(ts, s)

\* the interval callback after its await: checkStatus threw
PollFails(s, detail) ==
  /\ variant = "polling"
  /\ s \in 1..Len(sess)
  /\ sess[s].pending > 0
  /\ appError' = ErrMessage(detail, "Status check failed")
  /\ loadingPreview' = FALSE
  /\ timers' = StopOnError(timers, s)
  /\ sess' = [sess EXCEPT ![s].pending = @ - 1,
                          ![s].stopped = IF @ = "no" THEN "failed" ELSE @]
  /\ UNCHANGED <<variant, formVars, projectId, effectDep, previewUrl, zipUrl,
                 pvVars, location>>

----------------------------------------------------------------------------
\* Preview, delegating build

StopCall(s, id) == [op |-> "stop", s |-> s, id |-> id]
StatusCall(s, id) == [op |-> "status", s |-> s, id |-> id]

\* faulty CleanupPreviousPreview: it never calls stopPreview and settles at once
CleanupWithoutStop(st, s, id, chained) ==
  [st EXCEPT !.fq = IF chained THEN @ \cup {s} ELSE @]

\* cleanupPreviousPreview() of the effect run s, whose closure holds projectId = id,
\* up to its await: stopPreview(projectId) is called.  `chained` says whether
\* .then(fetchPreview) hangs on the promise (the effect body) or not (the cleanup).
CleanupPreviousPreview(st, s, id, chained) ==
  [st EXCEPT !.sp = @ \cup {<<s, chained>>},
             !.cl = Append(@, StopCall(s, id))]

\* the [projectId] effect of Preview: cleanup of the previous run, then the body
PreviewEffect ==
  /\ variant = "delegating"
  /\ projectId # Null                   \* {projectId && <Preview projectId=... />}
  /\ effectDep # projectId
  /\ LET st0 == [sp |-> stopPending, cl |-> calls, fq |-> fetchQueue]
         st1 == IF effectDep \in Ids
                  THEN CleanupPreviousPreview(st0, Len(sess), effectDep, FALSE)
                  ELSE st0
         st2 == IF projectId = Null
                  THEN st1
                  ELSE CleanupPreviousPreview(st1, Len(sess) + 1, projectId, TRUE)
     IN /\ stopPending' = st2.sp
        /\ calls' = st2.cl
        /\ fetchQueue' = st2.fq
  /\ sess' = IF projectId = Null THEN sess ELSE Append(sess, NewSession(projectId))
  /\ effectDep' = projectId
  /\ UNCHANGED <<variant, formVars, projectId, appError, previewUrl, zipUrl,
                 loadingPreview, timers, pvPreviewUrl, pvError, pvLoading,
                 warnings, location>>

\* faulty AfterStop: the rejection escapes cleanupPreviousPreview (no catch), so
\* .then(fetchPreview) is skipped
AfterStopRethrown(fq, s, chained, ok) == IF chained /\ ok THEN fq \cup {s} ELSE fq

\* cleanupPreviousPreview() settles (fulfilled also after the catch), so the
\* callback of .then, if any, becomes due
AfterStop(fq, s, chained, ok) == IF chained THEN fq \cup {s} ELSE fq

\* cleanupPreviousPreview after its await: stopPreview resolved
StopResolves(s, chained) ==
  /\ variant = "delegating"
  /\ <<s, chained>> \in stopPending
  /\ stopPending' = stopPending \ {<<s, chained>>}
  /\ fetchQueue' = AfterStop(fetchQueue, s, chained, TRUE)
  /\ UNCHANGED <<variant, formVars, appVars, pollVars, pvPreviewUrl, pvError,
                 pvLoading, calls, warnings, location>>

\* cleanupPreviousPreview after its await: stopPreview threw; catch, console.warn
StopRejects(s, chained) ==
  /\ variant = "delegating"
  /\ <<s, chained>> \in stopPending
  /\ stopPending' = stopPending \ {<<s, chained>>}
  /\ warnings' = warnings + 1
  /\ fetchQueue' = AfterStop(fetchQueue, s, chained, FALSE)
  /\ UNCHANGED <<variant, formVars, appVars, pollVars, pvPreviewUrl, pvError,
                 pvLoading, calls, location>>

\* fetchPreview up to its await
FetchPreview(s) ==
  /\ variant = "delegating"
  /\ s \in fetchQueue
  /\ fetchQueue' = fetchQueue \ {s}
  /\ pvLoading' = TRUE
  /\ pvError' = Null
  /\ calls' = Append(calls, StatusCall(s, sess[s].id))
  /\ sess' = [sess EXCEPT ![s].issued = @ + 1, ![s].pending = @ + 1]
  /\ UNCHANGED <<variant, formVars, appVars, previewUrl, zipUrl, loadingPreview,
                 timers, pvPreviewUrl, stopPending, warnings, location>>

\* fetchPreview after its await: checkStatus resolved; finally
FetchResolves(s) ==
  /\ variant = "delegating"
  /\ s \in 1..Len(sess)
  /\ sess[s].pending > 0
  /\ pvPreviewUrl' = PreviewRef(sess[s].id)
  /\ pvLoading' = FALSE
  /\ sess' = [sess EXCEPT ![s].pending = @ - 1,
                          ![s].stopped = IF @ = "no" THEN "ready" ELSE @]
  /\ UNCHANGED <<variant, formVars, appVars, previewUrl, zipUrl, loadingPreview,
                 timers, pvError, stopPending, fetchQueue, calls, warnings,
                 location>>

\* fetchPreview after its await: checkStatus threw; catch, finally
FetchRejects(s, detail) ==
  /\ variant = "delegating"
  /\ s \in 1..Len(sess)
  /\ sess[s].pending > 0
  /\ pvError' = ErrMessage(detail, "Status check failed")
  /\ pvLoading' = FALSE
  /\ sess' = [sess EXCEPT ![s].pending = @ - 1,
                          ![s].stopped = IF @ = "no" THEN "failed" ELSE @]
  /\ UNCHANGED <<variant, formVars, appVars, previewUrl, zipUrl, loadingPreview,
                 timers, pvPreviewUrl, stopPending, fetchQueue, calls, warnings,
                 location>>

----------------------------------------------------------------------------
\* DownloadButton

\* faulty ZipButtonEnabled: DownloadButton without `if (!zipUrl) return null`
ZipButtonAlwaysRendered == ~loadingPreview

\* DownloadButton({zipUrl, disabled}) as App (polling) renders it:
\* absent without zipUrl, disabled={loadingPreview}
ZipButtonEnabled == zipUrl # Null /\ ~loadingPreview

\* DownloadButton({projectId}) as App (delegating) renders it:
\* {projectId && <DownloadButton .../>}, disabled={!projectId}
IdButtonEnabled == projectId # Null /\ ~(projectId = Null)

DownloadEnabled ==
  IF variant = "polling" THEN ZipButtonEnabled ELSE IdButtonEnabled

\* onClick of the download button: downloadZip sets window.location.href
ClickDownload ==
  /\ DownloadEnabled
  /\ IF variant = "polling"
       THEN location' = zipUrl
       ELSE IF projectId # Null
              THEN location' = DownloadEndpoint(projectId)
              ELSE UNCHANGED location
  /\ location' # location
  /\ UNCHANGED <<variant, formVars, appVars, pollVars, pvVars>>

----------------------------------------------------------------------------
\* Preview, what it renders

\* faulty PreviewRendered: the loading test inverted
PreviewLoadingInverted ==
  IF ~loadingPreview THEN "loading"
  ELSE IF previewUrl = Null THEN "none"
  ELSE "frame"

\* Preview({previewUrl, loading}) as App (polling) renders it:
\* the loading line, nothing without previewUrl, else <iframe src={previewUrl}>
PreviewRendered ==
  IF loadingPreview THEN "loading"
  ELSE IF previewUrl = Null THEN "none"
  ELSE "frame"

\* Preview({projectId}) of the delegating build: loading line, error line,
\* "No preview available", else <iframe src={previewUrl}>
PvRendered ==
  IF pvLoading THEN "loading"
  ELSE IF pvError # Null THEN "error"
  ELSE IF pvPreviewUrl = Null THEN "none"
  ELSE "frame"

\* the preview frame is on the page
FrameShown ==
  IF variant = "polling"
    THEN PreviewRendered = "frame"
    ELSE projectId # Null /\ PvRendered = "frame"

\* src of the frame
FrameSrc == IF variant = "polling" THEN previewUrl ELSE pvPreviewUrl

----------------------------------------------------------------------------
Init ==
  /\ variant \in Variants
  /\ description = <<>>
  /\ fLoading = FALSE
  /\ fError = Null
  /\ genPending = 0
  /\ reported = 0
  /\ projectId = Null
  /\ appError = Null
  /\ effectDep = NoDep
  /\ previewUrl = Null
  /\ zipUrl = Null
  /\ loadingPreview = FALSE
  /\ timers = {}
  /\ sess = <<>>
  /\ pvPreviewUrl = Null
  /\ pvError = Null
  /\ pvLoading = FALSE
  /\ stopPending = {}
  /\ fetchQueue = {}
  /\ calls = <<>>
  /\ warnings = 0
  /\ location = "app"

Next ==
  \/ \E d \in Descriptions : SetDescription(d)
  \/ ClickGenerate
  \/ \E id \in Ids : GenerateResolves(id)
  \/ \E detail \in Details : GenerateRejects(detail)
  \/ AppEffect
  \/ \E s \in 1..MaxSubmits : Tick(s)
  \/ \E s \in 1..MaxSubmits : PollNotReady(s)
  \/ \E s \in 1..MaxSubmits : PollReady(s)
  \/ \E s \in 1..MaxSubmits, detail \in Details : PollFails(s, detail)
  \/ PreviewEffect
  \/ \E s \in 1..MaxSubmits, chained \in BOOLEAN : StopResolves(s, chained)
  \/ \E s \in 1..MaxSubmits, chained \in BOOLEAN : StopRejects(s, chained)
  \/ \E s \in 1..MaxSubmits : FetchPreview(s)
  \/ \E s \in 1..MaxSubmits : FetchResolves(s)
  \/ \E s \in 1..MaxSubmits, detail \in Details : FetchRejects(s, detail)
  \/ ClickDownload

Spec == Init /\ [][Next]_vars

----------------------------------------------------------------------------
\* Properties

Runs == 1..Len(sess)
Polling == variant = "polling"
Delegating == variant = "delegating"

\* a status query of run s is issued in this step
Issues(s) == s \in 1..Len(sess') /\ (s > Len(sess) \/ sess'[s].issued > sess[s].issued)

\* C1: in the delegating build, every status query of a run that follows
\* another run (identifier B adopted after A) comes after a stop-preview
\* request for the identifier of the run before it (A).
C1_StopBeforeNextStatus ==
  \A j \in 1..Len(calls) :
    (calls[j].op = "status" /\ calls[j].s > 1) =>
      \E i \in 1..(j - 1) :
        /\ calls[i].op = "stop"
        /\ calls[i].s = calls[j].s - 1
        /\ calls[i].id = sess[calls[j].s - 1].id

\* B's status query was issued while A's session had not finished
C1_Witness ==
  /\ Delegating
  /\ Len(sess) = 2
  /\ sess[1].stopped = "no"
  /\ \E j \in 1..Len(calls) : calls[j] = StatusCall(2, sess[2].id)

\* C2 as stated: a polling session whose answers were not-ready three times
\* and then ready has issued exactly four status queries, whatever the timing,
\* and issues none after the ready answer was processed.
C2_AsStated ==
  /\ [](\A s \in Runs :
          (Polling /\ sess[s].stopped = "ready" /\ sess[s].notReady = 3)
            => sess[s].issued = 4)
  /\ [][\A s \in Runs :
          (Polling /\ sess[s].stopped = "ready")
            => sess'[s].issued = sess[s].issued]_vars

\* C2 amended: exactly four when no tick fired while an answer was outstanding,
\* at least four otherwise, and in every timing no status query of the session
\* is issued once its ready answer has been processed.
C2_FourQueriesWithoutOverlap ==
  /\ [](\A s \in Runs :
          (Polling /\ sess[s].stopped = "ready" /\ sess[s].notReady = 3)
            => /\ sess[s].issued >= 4
               /\ ~sess[s].overlap => sess[s].issued = 4)
  /\ [][\A s \in Runs :
          (Polling /\ sess[s].stopped = "ready")
            => sess'[s].issued = sess[s].issued]_vars

C2_Witness ==
  /\ Polling
  /\ \E s \in Runs :
       /\ sess[s].stopped = "ready"
       /\ sess[s].notReady = 3
       /\ ~sess[s].overlap
       /\ sess[s].issued = 4
       /\ sess[s].pending = 0

\* C3: the step that processes the first failure of a session records the error
\* message, clears the loading flag and stops the session's timer; after it no
\* status query is issued for that session.
C3_FailureStopsPolling ==
  [][\A s \in Runs :
       /\ (sess[s].stopped = "no" /\ sess'[s].stopped = "failed")
            => IF Polling
                 THEN /\ appError' \in {Detail, "Status check failed"}
                      /\ ~loadingPreview'
                      /\ s \notin timers'
                 ELSE /\ pvError' \in {Detail, "Status check failed"}
                      /\ ~pvLoading'
       /\ sess[s].stopped = "failed"
            => /\ sess'[s].issued = sess[s].issued
               /\ s \notin timers']_vars

\* the second poll of a session failed
C3_Witness ==
  /\ Polling
  /\ \E s \in Runs :
       /\ sess[s].stopped = "failed"
       /\ sess[s].issued = 2
       /\ sess[s].notReady = 1
       /\ appError # Null

\* C4 as stated: at most one timer is active, and no timer tick issues a status
\* query for an identifier that is not the current projectId.
C4_AsStated ==
  /\ [](Cardinality(timers) <= 1)
  /\ [][\A s \in Runs :
          (Polling /\ Issues(s)) => sess[s].id = projectId]_vars

\* C4 amended: at most one timer is active, it is the one of the latest effect
\* run (the run that starts it has cancelled the previous one), and a tick
\* issues a status query only for the identifier of that run, which is the
\* current projectId except while the effect for a newly adopted identifier
\* has not run yet.
C4_SingleTimerOfLatestRun ==
  /\ [](/\ Cardinality(timers) <= 1
        /\ timers \subseteq {Len(sess)})
  /\ [][\A s \in Runs :
          (Polling /\ Issues(s))
            => /\ s = Len(sess)
               /\ sess[s].id = effectDep
               /\ (sess[s].id = projectId \/ EffectPending)]_vars

\* the second session polls after the first one polled and was cancelled
C4_Witness ==
  /\ Polling
  /\ Len(sess) = 2
  /\ timers = {2}
  /\ sess[1].issued > 0
  /\ sess[1].stopped = "no"
  /\ sess[2].issued > 0

\* the download reference the button navigates to
RecordedRef ==
  IF Polling
    THEN zipUrl
    ELSE IF projectId = Null THEN Null ELSE DownloadEndpoint(projectId)

WhitespaceOnly(d) == \A i \in 1..Len(d) : d[i] = Space

\* C6: while the description is empty or whitespace-only no generation request
\* is issued, and a click on submit changes nothing: not the draft, the
\* in-flight flag, the last error or the root's project identifier.
C6_BlankSubmitIsNoOp ==
  [][WhitespaceOnly(description)
       => /\ genPending' <= genPending
          /\ ClickGenerate
               => UNCHANGED <<description, fLoading, fError, genPending,
                              reported, projectId, appError>>]_vars

\* a whitespace-only draft with the submit button enabled, an error shown and
\* an identifier adopted by the root
C6_Witness ==
  /\ description # <<>>
  /\ WhitespaceOnly(description)
  /\ ~SubmitDisabled
  /\ reported + genPending < MaxSubmits
  /\ fError # Null
  /\ projectId # Null

\* C7: a click on submit with a non-blank description issues exactly one
\* generation request; never are two in flight; the submit button is disabled
\* exactly while one is.
C7_SingleSubmission ==
  /\ [](/\ genPending <= 1
        /\ genPending = 1 <=> fLoading
        /\ genPending = 1 <=> SubmitDisabled)
  /\ [][(ClickGenerate /\ ~WhitespaceOnly(description))
          => /\ genPending' = genPending + 1
             /\ fLoading' /\ fError' = Null]_vars

\* the second submission is in flight
C7_Witness ==
  /\ genPending = 1
  /\ reported = 1
  /\ SubmitDisabled

\* C8 as stated: no stop-preview request targets an effect run (an adopted
\* identifier) before that run's own status query was issued; in particular
\* the first request Preview issues is not a stop-preview request.
C8_StopOnlyForAbandoned ==
  \A i \in 1..Len(calls) :
    calls[i].op = "stop" =>
      \E j \in 1..(i - 1) : calls[j].op = "status" /\ calls[j].s = calls[i].s

\* C9: a failed stop-preview request changes neither Preview's error, loading
\* flag nor preview reference and issues no request (no retry); the status
\* query of the run is due after the stop settled whether it failed or not:
\* a run whose chained stop is no longer pending and whose fetchPreview is
\* not queued has issued its status query.
C9_StopFailureSwallowed ==
  /\ [](Delegating =>
          \A s \in Runs :
            (<<s, TRUE>> \notin stopPending /\ s \notin fetchQueue)
              => sess[s].issued = 1)
  /\ [][warnings' # warnings
          => /\ UNCHANGED <<pvPreviewUrl, pvError, pvLoading, calls, sess>>
             /\ \E s \in Runs, chained \in BOOLEAN :
                  /\ <<s, chained>> \in stopPending
                  /\ stopPending' = stopPending \ {<<s, chained>>}
                  /\ fetchQueue' = IF chained THEN fetchQueue \cup {s}
                                              ELSE fetchQueue]_vars

\* the only stop request so far failed, and the status query was issued after it
C9_Witness ==
  /\ Delegating
  /\ Len(sess) = 1
  /\ warnings = 1
  /\ stopPending = {}
  /\ sess[1].issued = 1

\* C10: the step that processes the answer to a generation request clears the
\* in-flight flag; on success it reports the identifier upward once (the root
\* adopts it) and the last error stays cleared; on failure it records the
\* message, reports nothing and leaves the root's identifier unchanged.
C10_SubmitOutcome ==
  /\ [](genPending = 0 => ~fLoading)
  /\ [][genPending' < genPending
          => /\ ~fLoading'
             /\ \/ /\ reported' = reported + 1
                   /\ projectId' \in Ids
                   /\ \E id \in Ids : GenerateResolves(id) /\ projectId' = id
                   /\ fError = Null /\ fError' = Null
                \/ /\ reported' = reported
                   /\ projectId' = projectId
                   /\ fError' \in {Detail, "Generation failed"}]_vars

\* a submission succeeded and a later one failed
C10_Witness ==
  /\ reported = 1
  /\ genPending = 0
  /\ ~fLoading
  /\ fError = "Generation failed"
  /\ projectId \in Ids

\* C11: end to end in the polling build: after one successful submission that
\* reported identifier p, a first status answer that was not ready and a second
\* that was ready, the preview frame is shown with the preview reference of
\* that answer as its source, the download button is enabled on the download
\* reference of that answer, and a click on it navigates there.
C11_Scenario ==
  /\ Polling
  /\ reported = 1
  /\ Len(sess) = 1
  /\ sess[1].id = projectId
  /\ sess[1].notReady = 1
  /\ sess[1].stopped = "ready"

C11_EndToEnd ==
  /\ [](C11_Scenario =>
          /\ FrameShown
          /\ FrameSrc = PreviewRef(projectId)
          /\ DownloadEnabled
          /\ zipUrl = ZipRef(projectId))
  /\ [][(C11_Scenario /\ location' # location)
          => location' = ZipRef(projectId)]_vars

\* the scenario ran with two queries and the download was activated
C11_Witness ==
  /\ C11_Scenario
  /\ sess[1].issued = 2
  /\ sess[1].pending = 0
  /\ FrameShown
  /\ location = ZipRef(projectId)

\* the root component holds no reference, loading flag or timer of its own
RootHoldsNoPollingState ==
  /\ previewUrl = Null
  /\ zipUrl = Null
  /\ ~loadingPreview
  /\ timers = {}

\* C12 as stated: on every successful submission the root adopts the reported
\* identifier as its current project identifier and clears its top-level
\* error, and in either build it holds no polling or readiness state.
C12_AsStated ==
  /\ [][reported' # reported
          => \E id \in Ids :
               GenerateResolves(id) /\ projectId' = id /\ appError' = Null]_vars
  /\ []RootHoldsNoPollingState

\* C12, amended: on every successful submission the root adopts the reported
\* identifier and clears its top-level error; the root of the delegating build
\* holds no polling or readiness state, the root of the polling build sets its
\* loading flag in the same step and leaves its references and timer as they are.
C12_AdoptAndClear ==
  /\ [][reported' # reported
          => \E id \in Ids :
               /\ GenerateResolves(id)
               /\ projectId' = id
               /\ appError' = Null
               /\ Polling => /\ loadingPreview'
                             /\ UNCHANGED <<previewUrl, zipUrl, timers>>]_vars
  /\ [](Delegating => RootHoldsNoPollingState)

\* a second submission was adopted after the first session had recorded an error
C12_Witness ==
  /\ Polling
  /\ reported = 2
  /\ Len(sess) >= 1
  /\ sess[1].stopped = "failed"
  /\ sess[1].pending = 0
  /\ projectId # sess[1].id
  /\ appError = Null
  /\ loadingPreview

\* the identifier run s asked about is no longer the current one
Stale(s) == sess[s].id # projectId

\* C13: the answer to a status query is written whatever the current
\* identifier is: when a query of a run whose identifier has been replaced
\* resolves, a ready answer still sets the preview reference, the download
\* reference and the loading flag, and a failure still sets the error and the
\* loading flag (the witness is an execution in which that happens).
C13_StaleAnswerIsWritten ==
  [][\A s \in Runs :
       Stale(s) =>
         /\ PollReady(s) => /\ previewUrl' = PreviewRef(sess[s].id)
                            /\ zipUrl' = ZipRef(sess[s].id)
                            /\ ~loadingPreview'
         /\ FetchResolves(s) => /\ pvPreviewUrl' = PreviewRef(sess[s].id)
                                /\ ~pvLoading'
         /\ \A d \in Details :
              /\ PollFails(s, d) => appError' # Null /\ ~loadingPreview'
              /\ FetchRejects(s, d) => pvError' # Null /\ ~pvLoading']_vars

\* A's only query was outstanding when B was adopted (which set the loading
\* flag); B has asked nothing yet, and A's ready answer is what the state shows
C13_Witness ==
  /\ Polling
  /\ Len(sess) = 2
  /\ projectId = sess[2].id
  /\ Stale(1)
  /\ sess[1].issued = 1
  /\ sess[1].stopped = "ready"
  /\ sess[2].issued = 0
  /\ previewUrl = PreviewRef(sess[1].id)
  /\ zipUrl = ZipRef(sess[1].id)
  /\ ~loadingPreview

\* an effect flush that abandons the run of a previous identifier
IdChangeFlush == effectDep \in Ids /\ effectDep' # effectDep

\* the step calls stopPreview for the identifier of the run it abandons
StopIssuedForAbandoned ==
  \E i \in (Len(calls) + 1)..Len(calls') :
    calls'[i] = StopCall(Len(sess), effectDep)

\* C14 as stated: on every identifier change the pending polling timer is
\* cancelled and a stop-preview request is issued for the identifier being
\* abandoned, and no timer tick of an abandoned run issues a query afterwards.
C14_AsStated ==
  /\ [][IdChangeFlush
          => Len(sess) \notin timers' /\ StopIssuedForAbandoned]_vars
  /\ [][\A s \in Runs :
          (Polling /\ s < Len(sess)) => sess'[s].issued = sess[s].issued]_vars

\* C14, amended: on every identifier change the polling build cancels the
\* timer of the abandoned run, and no tick of that run issues a query
\* afterwards, but it never issues a stop-preview request; the delegating
\* build, which has no timer, issues a stop-preview request for the identifier
\* being abandoned.
C14_CancelOrStop ==
  /\ [][IdChangeFlush
          => IF Polling
               THEN Len(sess) \notin timers' /\ calls' = calls
               ELSE StopIssuedForAbandoned]_vars
  /\ [][\A s \in Runs :
          (Polling /\ s < Len(sess)) => sess'[s].issued = sess[s].issued]_vars
  /\ [](Polling => calls = <<>>)
  /\ [](Delegating => timers = {})

\* A was abandoned for B while A's fetch was still to come: the cleanup asked
\* to stop A, then the body of B's run asked to stop B
C14_Witness ==
  /\ Delegating
  /\ Len(sess) = 2
  /\ sess[1].id # sess[2].id
  /\ sess[1].issued = 0
  /\ Len(calls) = 3
  /\ calls[2] = StopCall(1, sess[1].id)
  /\ calls[3] = StopCall(2, sess[2].id)

\* C15: whenever the preview frame is displayed its source is the preview
\* reference of a ready answer for the current project identifier, and
\* whenever the download button of the polling build is enabled its reference
\* is the download reference of a ready answer for the current identifier
\* (so the references of an earlier session are never on display).
C15_ShownRefsAreCurrent ==
  /\ FrameShown => FrameSrc = PreviewRef(projectId)
  /\ (Polling /\ DownloadEnabled) => zipUrl = ZipRef(projectId)

\* the session of A became ready, B was adopted and its session failed:
\* A's frame and A's download are what the page offers for B
C15_StaleAfterError ==
  /\ Polling
  /\ Len(sess) = 2
  /\ sess[1].stopped = "ready" /\ sess[1].issued = 1 /\ sess[1].pending = 0
  /\ sess[2].stopped = "failed" /\ sess[2].pending = 0
  /\ projectId = sess[2].id /\ Stale(1)
  /\ FrameShown /\ FrameSrc = PreviewRef(sess[1].id)
  /\ DownloadEnabled /\ zipUrl = ZipRef(sess[1].id)

\* something that can still clear the loading flag is under way: an effect
\* run is due, a timer is active, or a status query is outstanding
PollingUnderWay ==
  \/ EffectPending
  \/ timers # {}
  \/ \E s \in Runs : sess[s].pending > 0

\* C16: after every successful submission the loading-preview flag can still
\* become false: whenever it is set, an effect run, a timer or an outstanding
\* status query is there to clear it (otherwise it stays set for ever,
\* however the server answers).
C16_LoadingCanEnd == (Polling /\ loadingPreview) => PollingUnderWay

\* the same identifier was reported again after its session had become ready:
\* the flag is set and nothing is left to clear it
C16_StuckLoading ==
  /\ Polling
  /\ reported = 2
  /\ Len(sess) = 1
  /\ sess[1].stopped = "ready"
  /\ loadingPreview
  /\ ~PollingUnderWay

\* C17: once polling has stopped for a session (a ready answer or a failure
\* was processed), the resolution of a further status query of that session
\* changes neither the preview reference, the download reference, the loading
\* flag nor the error; and a session never has both a ready preview reference
\* and an error recorded for it.
C17_NoWriteAfterStop ==
  /\ [][\A s \in Runs :
          (Polling /\ sess[s].stopped # "no"
                   /\ sess'[s].pending < sess[s].pending)
            => UNCHANGED <<previewUrl, zipUrl, loadingPreview, appError>>]_vars
  /\ []((Polling /\ Len(sess) = 1 /\ reported = 1)
          => ~(previewUrl # Null /\ appError # Null))

\* one session, two queries outstanding at once: one was answered ready, the
\* other failed, and the session shows a preview reference and an error
C17_ReadyAndError ==
  /\ Polling
  /\ reported = 1
  /\ Len(sess) = 1
  /\ sess[1].issued = 2 /\ sess[1].pending = 0 /\ sess[1].overlap
  /\ sess[1].stopped = "ready"
  /\ previewUrl = PreviewRef(projectId)
  /\ appError # Null
====
